---- MODULE Spec2Model ----
(***************************************************************************)
(* Model of the FFmpeg process supervisor of python-security-api:         *)
(* utils/ffmpeg.py (FFmpegManager), the stream routes that call it        *)
(* (routes/stream.py) and the application lifespan (main.py).             *)
(*                                                                         *)
(* Three threads touch the manager: the thread of the asyncio event loop, *)
(* "main", which runs the lifespan and every request handler one after    *)
(* the other (no handler contains a suspension point), the daemon thread  *)
(* "rot" started by _start_hourly_scheduler, and the daemon thread        *)
(* "sched" started by the lifespan.  Both daemon threads run the pending  *)
(* jobs of the one default scheduler of the schedule library, the hourly  *)
(* rotation among them.  Every access of a thread to the shared           *)
(* dictionaries is one step, so the threads interleave as CPython lets    *)
(* them.                                                                  *)
(***************************************************************************)
EXTENDS Naturals, Sequences, FiniteSets, TLC

\* ------------------------------------------------------------------ bounds
MaxProcs == 3      \* transcoder processes spawned in one run
MaxHour == 1       \* hour boundaries crossed in one run
MaxLines == 3      \* lines of a live manifest
MaxPending == 1    \* lines of a transcoder waiting in its stderr pipe

\* --------------------------------------------------------------- constants
\* A camera id is a string; it is kept as the sequence of its tokens so that
\* startswith("record_") and replace("record_", "") can be computed on it.
CameraIds == << <<"101">>, <<"102">> >>
Cameras == {CameraIds[i] : i \in 1..Len(CameraIds)}
Kinds == {"live", "record"}
Threads == {"main", "rot", "sched"}

\* f"{stream_type}_{camera_id}"
ProcessKey(stream_type, camera_id) == <<stream_type>> \o <<"_">> \o camera_id

\* process_key.startswith("record_")
StartsWithRecord(process_key) ==
    /\ Len(process_key) >= 2
    /\ process_key[1] = "record"
    /\ process_key[2] = "_"

\* process_key.replace("record_", ""): every occurrence is removed
RECURSIVE ReplaceRecord(_)
ReplaceRecord(s) ==
    IF Len(s) = 0 THEN <<>>
    ELSE IF Len(s) >= 2 /\ s[1] = "record" /\ s[2] = "_"
         THEN ReplaceRecord(SubSeq(s, 3, Len(s)))
         ELSE <<s[1]>> \o ReplaceRecord(Tail(s))

\* ------------------------------------------------- the dict self.processes
\* A Python dict keeps insertion order: a sequence of (key, proc) entries.
Has(d, k) == \E i \in 1..Len(d) : d[i].key = k
Get(d, k) == d[CHOOSE i \in 1..Len(d) : d[i].key = k].proc
Put(d, k, p) ==
    IF Has(d, k)
    THEN [i \in 1..Len(d) |-> IF d[i].key = k THEN [key |-> k, proc |-> p] ELSE d[i]]
    ELSE Append(d, [key |-> k, proc |-> p])
DelKey(d, k) == SelectSeq(d, LAMBDA e : e.key # k)
KeyList(d) == [i \in 1..Len(d) |-> d[i].key]

VARIABLES
    processes,          \* self.processes: key -> Popen, in insertion order
    recording_cameras,  \* self.recording_cameras
    procs,              \* every process spawned so far; a pid is an index
    hour,               \* the wall clock, in hours
    rot_due,            \* the hourly job of the schedule library is pending
    pc,                 \* where each thread is
    loc,                \* the local variables of each thread
    hls,                \* the files under hls_root that the playlists read
    environ,            \* os.environ: the variables the program reads
    reply,              \* what the last playlist call returned
    logs,               \* for every process its stderr pipe and its log thread
    deleted             \* the date folders that the cleanup has deleted

vars == <<processes, recording_cameras, procs, hour, rot_due, pc, loc,
          hls, environ, reply, logs, deleted>>

\* what only the playlists, the log threads and the cleanup touch
fsvars == <<hls, environ, reply, logs, deleted>>

\* ------------------------------------------------ the files under hls_root
\* <hls_root>/<camera>/recordings/<date>: whether the directory is there, and
\* for every name what it holds: nothing, a plain file, or a directory with
\* its files.  <hls_root>/<camera>/live/index.m3u8: whether the file is there
\* and its text.  hls holds the date directories and the manifests that exist.
Dates == {<<"2024-01-01">>, <<"2024-01-02">>}
EntryNames == {<<"0", "9">>, <<"1", "1">>, <<"1", "0">>, <<"t", "m", "p">>}
FileNames == {<<"a", ".", "t", "s">>, <<"b", ".", "t", "s">>, <<"b", ".", "t", "m", "p">>}

NoEntry == [type |-> "none", files |-> {}]
PlainFile == [type |-> "file", files |-> {}]
Directory(files) == [type |-> "dir", files |-> files]
NoDateDir == [exists |-> FALSE, entries |-> [n \in EntryNames |-> NoEntry]]
NoManifest == [exists |-> FALSE, text |-> <<>>]

\* nothing has been recorded or streamed yet; locked holds the date folders
\* that shutil.rmtree cannot remove (a file of the folder is held open, or the
\* folder is not writable)
NoFiles == [recordings |-> {}, live |-> {}, locked |-> {}]

\* self.hls_root / camera_id / "recordings" / date
recording_dir(camera_id, date) ==
    IF \E r \in hls.recordings : r.cam = camera_id /\ r.date = date
    THEN (CHOOSE r \in hls.recordings : r.cam = camera_id /\ r.date = date).dir
    ELSE NoDateDir

\* self.hls_root / camera_id / "live" / "index.m3u8"
playlist_path(camera_id) ==
    IF \E r \in hls.live : r.cam = camera_id
    THEN (CHOOSE r \in hls.live : r.cam = camera_id).file
    ELSE NoManifest

None == [op |-> "none", cam |-> <<>>, date |-> <<>>, hour |-> <<>>,
         absent |-> TRUE, text |-> <<>>]

\* a variable of the environment that is not set
NotSet == "(not set)"

\* os.getenv(name, default)
getenv(name, default) == IF environ[name] = NotSet THEN default ELSE environ[name]

\* the environment when nothing is configured
NoEnviron == [HOST |-> NotSet, PORT |-> NotSet, RTSP_USERNAME |-> NotSet,
              RTSP_PASSWORD |-> NotSet, RTSP_IP |-> NotSet,
              RECORDING_RETENTION_DAYS |-> NotSet]

\* no recording, no manifest, no variable set, no playlist asked for, no
\* folder deleted
InitFiles ==
    /\ hls = NoFiles
    /\ environ = NoEnviron
    /\ reply = None
    /\ deleted = {}

\* ------------------------------------------------------------ the RTSP URLs
\* f"rtsp://{username}:{password}@{ip}:554/Streaming/Channels/{camera_id}"
get_rtsp_url(camera_id, username, password, ip) ==
    <<"rtsp://", username, ":", password, "@", ip, ":554/Streaming/Channels/">>
        \o camera_id

\* main.py: the configuration that the lifespan reads from the environment and
\* hands to the routes
rtsp_config ==
    [username |-> getenv("RTSP_USERNAME", "admin"),
     password |-> getenv("RTSP_PASSWORD", "password"),
     ip |-> getenv("RTSP_IP", "192.168.1.100")]

\* the URL that the lifespan and the routes pass to start_live_stream and
\* start_recording
ConfiguredUrl(camera_id) ==
    get_rtsp_url(camera_id, rtsp_config.username, rtsp_config.password, rtsp_config.ip)

\* the configuration written into _get_camera_rtsp_url
dvr_config == [username |-> "admin", password |-> "iME101112", ip |-> "192.168.100.100"]

\* _get_camera_rtsp_url: the URL that the rotation restarts a recording with
get_camera_rtsp_url(camera_id) ==
    get_rtsp_url(camera_id, dvr_config.username, dvr_config.password, dvr_config.ip)

\* The locals of a thread.  before is not a local of the program: it keeps
\* the registry and the tracking set as a call of start found them, so that
\* what start has returned can be compared with it.
NoLoc == [op |-> "none", cam |-> <<>>, kind |-> "none", proc |-> 0,
          cont |-> "idle", todo |-> <<>>, res |-> "none",
          before |-> [processes |-> <<>>, recording_cameras |-> {}]]

\* Popen.poll() is None
Running(p) == procs[p].status = "running"

\* A running process has the key it was started for, the RTSP URL it reads and
\* the hour directory it writes into.  An exited process keeps only how it ended: "exited" (on its
\* own, from outside or on the SIGTERM of the manager) or "killed" (on the
\* SIGKILL of the manager).
Exited(how) == [key |-> <<>>, url |-> <<>>, status |-> how, hour |-> 0]

\* FFmpegManager.__init__: empty registry, empty tracking set
InitManager ==
    /\ processes = <<>>
    /\ recording_cameras = {}
    /\ procs = <<>>
    /\ hour = 0
    /\ rot_due = FALSE
    /\ loc = [t \in Threads |-> NoLoc]
    /\ logs = <<>>

\* --------------------------------------------------------- calls and returns
Goto(t, label) == pc' = [pc EXCEPT ![t] = label]

\* enter a method of the manager with its arguments; cont is where the
\* caller goes on when the method returns
Call(t, op, entry, cam, kind, cont) ==
    /\ pc' = [pc EXCEPT ![t] = entry]
    /\ loc' = [loc EXCEPT ![t].op = op, ![t].cam = cam, ![t].kind = kind,
                          ![t].proc = 0, ![t].cont = cont, ![t].res = "none"]

\* return a value to the caller (proc stays the handle the method looked at
\* until the caller is through with the result)
Return(t, value) ==
    /\ pc' = [pc EXCEPT ![t] = loc[t].cont]
    /\ loc' = [loc EXCEPT ![t].res = value]

\* an exception leaves the method and is not caught by its caller: the
\* request handler ends with an error response
Raise(t) ==
    /\ pc' = [pc EXCEPT ![t] = "done"]
    /\ loc' = [loc EXCEPT ![t].res = "raised", ![t].todo = <<>>]

MyKey(t) == ProcessKey(loc[t].kind, loc[t].cam)

\* ---------------------------------------------------------------- stop_stream
\* a stop_stream that clears the tracking set before it looks for the handle
StopCheck_Discards(t) ==
    /\ pc[t] = "stop_check"
    /\ recording_cameras' = recording_cameras \ {loc[t].cam}
    /\ IF Has(processes, MyKey(t))
       THEN Goto(t, "stop_read") /\ UNCHANGED loc
       ELSE Return(t, "False")
    /\ UNCHANGED <<processes, procs, hour, rot_due, fsvars>>

\* if process_key in self.processes
StopCheck(t) ==
    /\ pc[t] = "stop_check"
    /\ IF Has(processes, MyKey(t))
       THEN Goto(t, "stop_read") /\ UNCHANGED loc
       ELSE Return(t, "False")
    /\ UNCHANGED <<processes, recording_cameras, procs, hour, rot_due, fsvars>>

\* process = self.processes[process_key]; a KeyError is caught at line 233
StopRead(t) ==
    /\ pc[t] = "stop_read"
    /\ IF Has(processes, MyKey(t))
       THEN /\ Goto(t, "stop_term")
            /\ loc' = [loc EXCEPT ![t].proc = Get(processes, MyKey(t))]
       ELSE Return(t, "False")
    /\ UNCHANGED <<processes, recording_cameras, procs, hour, rot_due, fsvars>>

\* process.terminate(); process.wait(timeout=5): a running process either
\* exits within the grace period or the wait times out
TerminateWait(t, next, timeout) ==
    IF Running(loc[t].proc)
    THEN \/ /\ procs' = [procs EXCEPT ![loc[t].proc] = Exited("exited")]
            /\ Goto(t, next)
         \/ /\ UNCHANGED procs
            /\ Goto(t, timeout)
    ELSE /\ UNCHANGED procs
         /\ Goto(t, next)

\* a forced stop that never sends the kill
KillWait_NoKill(t, next) ==
    /\ UNCHANGED procs
    /\ Goto(t, next)

\* process.kill(); process.wait()
KillWait(t, next) ==
    /\ procs' = IF Running(loc[t].proc)
                THEN [procs EXCEPT ![loc[t].proc] = Exited("killed")]
                ELSE procs
    /\ Goto(t, next)

StopTerminate(t) ==
    /\ pc[t] = "stop_term"
    /\ TerminateWait(t, "stop_del", "stop_kill")
    /\ UNCHANGED <<processes, recording_cameras, hour, rot_due, loc, fsvars>>

\* a stop_stream that reports the expired grace period as a failure
StopKill_Surfaces(t) ==
    /\ pc[t] = "stop_kill"
    /\ procs' = IF Running(loc[t].proc)
                THEN [procs EXCEPT ![loc[t].proc] = Exited("killed")]
                ELSE procs
    /\ Return(t, "False")
    /\ UNCHANGED <<processes, recording_cameras, hour, rot_due, fsvars>>

StopKill(t) ==
    /\ pc[t] = "stop_kill"
    /\ KillWait(t, "stop_del")
    /\ UNCHANGED <<processes, recording_cameras, hour, rot_due, loc, fsvars>>

\* a stop_stream that drops every handle of the camera
StopDel_DropsCamera(t) ==
    /\ pc[t] = "stop_del"
    /\ IF Has(processes, MyKey(t))
       THEN /\ processes' = SelectSeq(processes,
                                LAMBDA e : SubSeq(e.key, 3, Len(e.key)) # loc[t].cam)
            /\ IF loc[t].kind = "record"
               THEN Goto(t, "stop_discard") /\ UNCHANGED loc
               ELSE Return(t, "True")
       ELSE /\ UNCHANGED processes
            /\ Return(t, "False")
    /\ UNCHANGED <<recording_cameras, procs, hour, rot_due, fsvars>>

\* a stop_stream that forgets the del
StopDel_KeepsHandle(t) ==
    /\ pc[t] = "stop_del"
    /\ IF loc[t].kind = "record"
       THEN Goto(t, "stop_discard") /\ UNCHANGED loc
       ELSE Return(t, "True")
    /\ UNCHANGED <<processes, recording_cameras, procs, hour, rot_due, fsvars>>

\* del self.processes[process_key]; a KeyError is caught at line 233
StopDel(t) ==
    /\ pc[t] = "stop_del"
    /\ IF Has(processes, MyKey(t))
       THEN /\ processes' = DelKey(processes, MyKey(t))
            /\ IF loc[t].kind = "record"
               THEN Goto(t, "stop_discard") /\ UNCHANGED loc
               ELSE Return(t, "True")
       ELSE /\ UNCHANGED processes
            /\ Return(t, "False")
    /\ UNCHANGED <<recording_cameras, procs, hour, rot_due, fsvars>>

\* a stop_stream that leaves the tracking set alone
StopDiscard_Keeps(t) ==
    /\ pc[t] = "stop_discard"
    /\ Return(t, "True")
    /\ UNCHANGED <<processes, recording_cameras, procs, hour, rot_due, fsvars>>

\* if stream_type == "record": self.recording_cameras.discard(camera_id)
StopDiscard(t) ==
    /\ pc[t] = "stop_discard"
    /\ recording_cameras' = recording_cameras \ {loc[t].cam}
    /\ Return(t, "True")
    /\ UNCHANGED <<processes, procs, hour, rot_due, fsvars>>

stop_stream(t) ==
    \/ StopCheck(t)
    \/ StopRead(t)
    \/ StopTerminate(t)
    \/ StopKill(t)
    \/ StopDel(t)
    \/ StopDiscard(t)

\* ----------------------------------------------------------- is_stream_active
\* if process_key in self.processes
ActiveCheck(t) ==
    /\ pc[t] = "act_check"
    /\ IF Has(processes, MyKey(t))
       THEN Goto(t, "act_read") /\ UNCHANGED loc
       ELSE Return(t, "False")
    /\ UNCHANGED <<processes, recording_cameras, procs, hour, rot_due, fsvars>>

\* process = self.processes[process_key]; nothing catches a KeyError here
ActiveRead(t) ==
    /\ pc[t] = "act_read"
    /\ IF Has(processes, MyKey(t))
       THEN /\ Goto(t, "act_poll")
            /\ loc' = [loc EXCEPT ![t].proc = Get(processes, MyKey(t))]
       ELSE Raise(t)
    /\ UNCHANGED <<processes, recording_cameras, procs, hour, rot_due, fsvars>>

\* if process.poll() is None: return True
ActivePoll(t) ==
    /\ pc[t] = "act_poll"
    /\ IF Running(loc[t].proc)
       THEN Return(t, "True")
       ELSE Goto(t, "act_del") /\ UNCHANGED loc
    /\ UNCHANGED <<processes, recording_cameras, procs, hour, rot_due, fsvars>>

\* an is_stream_active that reports the exit and keeps the stale handle
ActiveDel_KeepsStale(t) ==
    /\ pc[t] = "act_del"
    /\ Return(t, "False")
    /\ UNCHANGED <<processes, recording_cameras, procs, hour, rot_due, fsvars>>

\* del self.processes[process_key]; return False
ActiveDel(t) ==
    /\ pc[t] = "act_del"
    /\ IF Has(processes, MyKey(t))
       THEN /\ processes' = DelKey(processes, MyKey(t))
            /\ Return(t, "False")
       ELSE /\ UNCHANGED processes
            /\ Raise(t)
    /\ UNCHANGED <<recording_cameras, procs, hour, rot_due, fsvars>>

is_stream_active(t) ==
    \/ ActiveCheck(t)
    \/ ActiveRead(t)
    \/ ActivePoll(t)
    \/ ActiveDel(t)

\* ---------------------------------------------------------- get_process_status
StatusCheck(t) ==
    /\ pc[t] = "status_check"
    /\ IF Has(processes, MyKey(t))
       THEN Goto(t, "status_read") /\ UNCHANGED loc
       ELSE Return(t, "False")
    /\ UNCHANGED <<processes, recording_cameras, procs, hour, rot_due, fsvars>>

\* a get_process_status that reaps an exited process as is_stream_active does
StatusRead_Reaps(t) ==
    /\ pc[t] = "status_read"
    /\ IF Has(processes, MyKey(t))
       THEN /\ processes' = IF Running(Get(processes, MyKey(t)))
                            THEN processes
                            ELSE DelKey(processes, MyKey(t))
            /\ Return(t, IF Running(Get(processes, MyKey(t))) THEN "True" ELSE "False")
       ELSE UNCHANGED processes /\ Raise(t)
    /\ UNCHANGED <<recording_cameras, procs, hour, rot_due, fsvars>>

\* process = self.processes[process_key]; "running": process.poll() is None
StatusRead(t) ==
    /\ pc[t] = "status_read"
    /\ IF Has(processes, MyKey(t))
       THEN Return(t, IF Running(Get(processes, MyKey(t))) THEN "True" ELSE "False")
       ELSE Raise(t)
    /\ UNCHANGED <<processes, recording_cameras, procs, hour, rot_due, fsvars>>

get_process_status(t) ==
    \/ StatusCheck(t)
    \/ StatusRead(t)

\* ------------------------------------------------------- _log_ffmpeg_output
\* The stderr pipe of a process holds the lines the process has written and
\* the thread has not read yet; the thread of log_output runs or has ended.
NewLog == [pending |-> 0, thread |-> "running"]

\* the transcoder writes a line to its stderr
FfmpegWrites(p) ==
    /\ p \in 1..Len(procs)
    /\ Running(p)
    /\ logs[p].pending < MaxPending
    /\ logs' = [logs EXCEPT ![p].pending = @ + 1]
    /\ UNCHANGED <<processes, recording_cameras, procs, hour, rot_due, pc, loc,
                   hls, environ, reply, deleted>>

\* output = process.stderr.readline() returns a line: it is logged and the
\* loop goes on
LogLine(p) ==
    /\ p \in 1..Len(procs)
    /\ logs[p].thread = "running"
    /\ logs[p].pending > 0
    /\ logs' = [logs EXCEPT ![p].pending = @ - 1]
    /\ UNCHANGED <<processes, recording_cameras, procs, hour, rot_due, pc, loc,
                   hls, environ, reply, deleted>>

\* a mis-written exit test: the loop is left only while the process runs
LogEnd_WhileRunning(p) ==
    /\ p \in 1..Len(procs)
    /\ logs[p].thread = "running"
    /\ logs[p].pending = 0
    /\ Running(p)
    /\ logs' = [logs EXCEPT ![p].thread = "ended"]
    /\ UNCHANGED <<processes, recording_cameras, procs, hour, rot_due, pc, loc,
                   hls, environ, reply, deleted>>

\* readline() returns '' at the end of the stream, which the exit of the
\* process closes: if output == '' and process.poll() is not None: break
LogEnd(p) ==
    /\ p \in 1..Len(procs)
    /\ logs[p].thread = "running"
    /\ logs[p].pending = 0
    /\ ~Running(p)
    /\ logs' = [logs EXCEPT ![p].thread = "ended"]
    /\ UNCHANGED <<processes, recording_cameras, procs, hour, rot_due, pc, loc,
                   hls, environ, reply, deleted>>

\* readline() raises (a line that is no valid text): except Exception logs
\* the error and the thread ends
LogError(p) ==
    /\ p \in 1..Len(procs)
    /\ logs[p].thread = "running"
    /\ logs[p].pending > 0
    /\ logs' = [logs EXCEPT ![p].thread = "ended"]
    /\ UNCHANGED <<processes, recording_cameras, procs, hour, rot_due, pc, loc,
                   hls, environ, reply, deleted>>

log_output(p) ==
    \/ LogLine(p)
    \/ LogEnd(p)
    \/ LogError(p)

\* ------------------------------------------- start_live_stream, start_recording
\* mkdir and subprocess.Popen: either one raises (caught, return False) or a
\* new process runs, reading rtsp_url and writing into the directory of the
\* current hour.  Every caller of the two methods passes the URL of the
\* configuration for rtsp_url.  _log_ffmpeg_output starts the daemon thread
\* that reads the stderr pipe of the new process and returns at once.
Spawn(t, next) ==
    \/ /\ procs' = Append(procs, [key |-> MyKey(t), url |-> ConfiguredUrl(loc[t].cam),
                                  status |-> "running", hour |-> hour])
       /\ logs' = Append(logs, NewLog)
       /\ pc' = [pc EXCEPT ![t] = next]
       /\ loc' = [loc EXCEPT ![t].proc = Len(procs) + 1]
    \/ /\ UNCHANGED <<procs, logs>>
       /\ Return(t, "False")

\* self.recording_cameras.add(camera_id)
RecAdd(t) ==
    /\ pc[t] = "rec_add"
    /\ recording_cameras' = recording_cameras \cup {loc[t].cam}
    /\ Goto(t, "rec_spawn")
    /\ UNCHANGED <<processes, procs, hour, rot_due, loc, fsvars>>

RecSpawn(t) ==
    /\ pc[t] = "rec_spawn"
    /\ Spawn(t, "rec_reg")
    /\ UNCHANGED <<processes, recording_cameras, hour, rot_due,
                   hls, environ, reply, deleted>>

\* self.processes[f"record_{camera_id}"] = process; return True
RecRegister(t) ==
    /\ pc[t] = "rec_reg"
    /\ processes' = Put(processes, MyKey(t), loc[t].proc)
    /\ Return(t, "True")
    /\ UNCHANGED <<recording_cameras, procs, hour, rot_due, fsvars>>

start_recording(t) ==
    \/ RecAdd(t)
    \/ RecSpawn(t)
    \/ RecRegister(t)

LiveSpawn(t) ==
    /\ pc[t] = "live_spawn"
    /\ Spawn(t, "live_reg")
    /\ UNCHANGED <<processes, recording_cameras, hour, rot_due,
                   hls, environ, reply, deleted>>

\* self.processes[f"live_{camera_id}"] = process; return True
LiveRegister(t) ==
    /\ pc[t] = "live_reg"
    /\ processes' = Put(processes, MyKey(t), loc[t].proc)
    /\ Return(t, "True")
    /\ UNCHANGED <<recording_cameras, procs, hour, rot_due, fsvars>>

start_live_stream(t) ==
    \/ LiveSpawn(t)
    \/ LiveRegister(t)

StartEntry(kind) == IF kind = "record" THEN "rec_add" ELSE "live_spawn"

\* ------------------------------------------------------------ stop_all_streams
\* for process_key in list(self.processes.keys())
StopAllList(t) ==
    /\ pc[t] = "sa_list"
    /\ loc' = [loc EXCEPT ![t].todo = KeyList(processes)]
    /\ Goto(t, "sa_loop")
    /\ UNCHANGED <<processes, recording_cameras, procs, hour, rot_due, fsvars>>

\* a stop_all_streams without the try around the body of its loop
StopAllRead_Raises(t) ==
    /\ pc[t] = "sa_loop"
    /\ loc[t].todo # <<>>
    /\ IF Has(processes, Head(loc[t].todo))
       THEN /\ Goto(t, "sa_term")
            /\ loc' = [loc EXCEPT ![t].proc = Get(processes, Head(loc[t].todo)),
                                  ![t].todo = Tail(loc[t].todo)]
       ELSE Raise(t)
    /\ UNCHANGED <<processes, recording_cameras, procs, hour, rot_due, fsvars>>

\* process = self.processes[process_key]; a KeyError is caught at line 250
\* and logged ("failed"), and the loop goes on
StopAllRead(t) ==
    /\ pc[t] = "sa_loop"
    /\ loc[t].todo # <<>>
    /\ IF Has(processes, Head(loc[t].todo))
       THEN /\ Goto(t, "sa_term")
            /\ loc' = [loc EXCEPT ![t].proc = Get(processes, Head(loc[t].todo)),
                                  ![t].todo = Tail(loc[t].todo)]
       ELSE /\ Goto(t, "sa_loop")
            /\ loc' = [loc EXCEPT ![t].todo = Tail(loc[t].todo), ![t].res = "failed"]
    /\ UNCHANGED <<processes, recording_cameras, procs, hour, rot_due, fsvars>>

StopAllTerminate(t) ==
    /\ pc[t] = "sa_term"
    /\ TerminateWait(t, "sa_loop", "sa_kill")
    /\ UNCHANGED <<processes, recording_cameras, hour, rot_due, loc, fsvars>>

StopAllKill(t) ==
    /\ pc[t] = "sa_kill"
    /\ KillWait(t, "sa_loop")
    /\ UNCHANGED <<processes, recording_cameras, hour, rot_due, loc, fsvars>>

\* self.processes.clear()
StopAllClear(t) ==
    /\ pc[t] = "sa_loop"
    /\ loc[t].todo = <<>>
    /\ processes' = <<>>
    /\ Return(t, "None")
    /\ UNCHANGED <<recording_cameras, procs, hour, rot_due, fsvars>>

stop_all_streams(t) ==
    \/ StopAllList(t)
    \/ StopAllRead(t)
    \/ StopAllTerminate(t)
    \/ StopAllKill(t)
    \/ StopAllClear(t)

\* the methods of the manager that the routes and the lifespan call
Manager(t) ==
    \/ stop_stream(t)
    \/ is_stream_active(t)
    \/ start_recording(t)
    \/ start_live_stream(t)
    \/ stop_all_streams(t)

\* ------------------------------------------------------------- the environment
\* the transcoder exits on its own (crash, RTSP source dropped, killed from
\* outside); nothing tells the manager
ProcessExits ==
    /\ \E p \in 1..Len(procs) :
          /\ Running(p)
          /\ procs' = [procs EXCEPT ![p] = Exited("exited")]
    /\ UNCHANGED <<processes, recording_cameras, hour, rot_due, pc, loc, fsvars>>

\* the clock passes an hour boundary: the hourly job becomes due
HourBoundary ==
    /\ hour < MaxHour
    /\ hour' = hour + 1
    /\ rot_due' = TRUE
    /\ UNCHANGED <<processes, recording_cameras, procs, pc, loc, fsvars>>

\* the caller has seen the result of the call
Finish(t) ==
    /\ pc[t] = "done"
    /\ pc' = [pc EXCEPT ![t] = "idle"]
    /\ loc' = [loc EXCEPT ![t] = NoLoc]
    /\ UNCHANGED <<processes, recording_cameras, procs, hour, rot_due, fsvars>>

\* ------------------------------------------ the interface of the manager
\* One caller uses the methods of the manager one after the other.
ApiStart(c, k) ==
    /\ pc["main"] = "idle"
    /\ Len(procs) < MaxProcs
    /\ pc' = [pc EXCEPT !["main"] = StartEntry(k)]
    /\ loc' = [loc EXCEPT !["main"] =
                  [NoLoc EXCEPT !.op = "start", !.cam = c, !.kind = k, !.cont = "done",
                                !.before = [processes |-> processes,
                                            recording_cameras |-> recording_cameras]]]
    /\ UNCHANGED <<processes, recording_cameras, procs, hour, rot_due, fsvars>>

ApiStop(c, k) ==
    /\ pc["main"] = "idle"
    /\ Call("main", "stop", "stop_check", c, k, "done")
    /\ UNCHANGED <<processes, recording_cameras, procs, hour, rot_due, fsvars>>

ApiIsActive(c, k) ==
    /\ pc["main"] = "idle"
    /\ Call("main", "isActive", "act_check", c, k, "done")
    /\ UNCHANGED <<processes, recording_cameras, procs, hour, rot_due, fsvars>>

ApiStatus(c, k) ==
    /\ pc["main"] = "idle"
    /\ Call("main", "status", "status_check", c, k, "done")
    /\ UNCHANGED <<processes, recording_cameras, procs, hour, rot_due, fsvars>>

ApiStopAll ==
    /\ pc["main"] = "idle"
    /\ Call("main", "stopAll", "sa_list", <<>>, "none", "done")
    /\ UNCHANGED <<processes, recording_cameras, procs, hour, rot_due, fsvars>>

InitApi ==
    /\ InitManager
    /\ InitFiles
    /\ pc = [t \in Threads |-> "idle"]

NextApi ==
    \/ \E c \in Cameras, k \in Kinds : ApiStart(c, k)
    \/ \E c \in Cameras, k \in Kinds : ApiStop(c, k)
    \/ \E c \in Cameras, k \in Kinds : ApiIsActive(c, k)
    \/ \E c \in Cameras, k \in Kinds : ApiStatus(c, k)
    \/ ApiStopAll
    \/ Manager("main")
    \/ get_process_status("main")
    \/ Finish("main")
    \/ ProcessExits

SpecApi == InitApi /\ [][NextApi]_vars

\* ------------------------------------------------ _rotate_hourly_recordings
\* cameras_to_rotate: the camera id cut out of every key that starts with
\* "record_", in the order of the dict
CamerasToRotate(d) ==
    LET recs == SelectSeq(KeyList(d), StartsWithRecord)
    IN  [i \in 1..Len(recs) |-> ReplaceRecord(recs[i])]

\* schedule.run_pending() in the thread of _start_hourly_scheduler finds the
\* hourly job due and runs it: lines 41-46 list the cameras
RotateList(t) ==
    /\ pc[t] = "idle"
    /\ rot_due
    /\ loc' = [loc EXCEPT ![t].todo = CamerasToRotate(processes)]
    /\ Goto(t, "rot_loop")
    /\ UNCHANGED <<processes, recording_cameras, procs, hour, rot_due, fsvars>>

\* for camera_id in cameras_to_rotate: if camera_id in self.recording_cameras:
\* self.stop_stream(camera_id, "record") (the RTSP URL is never empty)
RotateNext(t) ==
    /\ pc[t] = "rot_loop"
    /\ loc[t].todo # <<>>
    /\ IF Head(loc[t].todo) \in recording_cameras
       THEN /\ pc' = [pc EXCEPT ![t] = "stop_check"]
            /\ loc' = [loc EXCEPT ![t].op = "rotate", ![t].cam = Head(loc[t].todo),
                                  ![t].kind = "record", ![t].cont = "rot_restart",
                                  ![t].proc = 0, ![t].res = "none",
                                  ![t].todo = Tail(loc[t].todo)]
       ELSE /\ Goto(t, "rot_loop")
            /\ loc' = [loc EXCEPT ![t].todo = Tail(loc[t].todo)]
    /\ UNCHANGED <<processes, recording_cameras, procs, hour, rot_due, fsvars>>

\* the job returns; the schedule library plans its next run
RotateDone(t) ==
    /\ pc[t] = "rot_loop"
    /\ loc[t].todo = <<>>
    /\ rot_due' = FALSE
    /\ pc' = [pc EXCEPT ![t] = "idle"]
    /\ loc' = [loc EXCEPT ![t] = NoLoc]
    /\ UNCHANGED <<processes, recording_cameras, procs, hour, fsvars>>

\* the restart as it is meant: start_recording runs to its end in the thread
RotateRestart_Starts(t) ==
    /\ pc[t] = "rot_restart"
    /\ recording_cameras' = recording_cameras \cup {loc[t].cam}
    /\ procs' = Append(procs, [key |-> MyKey(t), url |-> get_camera_rtsp_url(loc[t].cam),
                               status |-> "running", hour |-> hour])
    /\ logs' = Append(logs, NewLog)
    /\ processes' = Put(processes, MyKey(t), Len(procs) + 1)
    /\ pc' = [pc EXCEPT ![t] = "rot_loop"]
    /\ loc' = [loc EXCEPT ![t].res = "True", ![t].proc = 0]
    /\ UNCHANGED <<hour, rot_due, hls, environ, reply, deleted>>

\* time.sleep(2); asyncio.create_task(self.start_recording(camera_id, rtsp_url)):
\* the call start_recording(...) only builds the coroutine object, and
\* create_task raises RuntimeError because the scheduler thread runs no event
\* loop.  The coroutine never runs; the exception leaves the job, run_pending
\* and the while loop of run_scheduler: the thread ends.
RotateRestart(t) ==
    /\ pc[t] = "rot_restart"
    /\ pc' = [pc EXCEPT ![t] = "dead"]
    /\ loc' = [loc EXCEPT ![t].todo = <<>>, ![t].res = "raised", ![t].proc = 0]
    /\ UNCHANGED <<processes, recording_cameras, procs, hour, rot_due, fsvars>>

rotate_hourly_recordings(t) ==
    \/ RotateList(t)
    \/ RotateNext(t)
    \/ RotateDone(t)
    \/ RotateRestart(t)

\* --------------------------------------------------------- routes/stream.py
\* POST /stream/live/{id}, /stream/record/{id}, /cameras/{id}/live/start:
\* if ffmpeg_manager.is_stream_active(camera_id, kind): return already active
ReqStart(c, k) ==
    /\ pc["main"] = "idle"
    /\ Len(procs) < MaxProcs
    /\ Call("main", "reqStart", "act_check", c, k, "rt_start")
    /\ UNCHANGED <<processes, recording_cameras, procs, hour, rot_due, fsvars>>

\* a route that starts without looking at the answer of is_stream_active
ReqStartDecide_Always ==
    /\ pc["main"] = "rt_start"
    /\ pc' = [pc EXCEPT !["main"] = StartEntry(loc["main"].kind)]
    /\ loc' = [loc EXCEPT !["main"].cont = "done", !["main"].res = "none",
                          !["main"].proc = 0]
    /\ UNCHANGED <<processes, recording_cameras, procs, hour, rot_due, fsvars>>

\* success = await ffmpeg_manager.start_...(camera_id, rtsp_url)
ReqStartDecide ==
    /\ pc["main"] = "rt_start"
    /\ IF loc["main"].res = "True"
       THEN /\ pc' = [pc EXCEPT !["main"] = "done"]
            /\ loc' = [loc EXCEPT !["main"].res = "already", !["main"].proc = 0]
       ELSE /\ pc' = [pc EXCEPT !["main"] = StartEntry(loc["main"].kind)]
            /\ loc' = [loc EXCEPT !["main"].cont = "done", !["main"].res = "none",
                                  !["main"].proc = 0]
    /\ UNCHANGED <<processes, recording_cameras, procs, hour, rot_due, fsvars>>

\* DELETE /stream/live/{id}, /stream/record/{id}, POST /cameras/{id}/live/stop
ReqStop(c, k) ==
    /\ pc["main"] = "idle"
    /\ Call("main", "reqStop", "stop_check", c, k, "done")
    /\ UNCHANGED <<processes, recording_cameras, procs, hour, rot_due, fsvars>>

\* GET /stream/status/{id}: is_stream_active(id, "live"), then (id, "record")
ReqStatus(c) ==
    /\ pc["main"] = "idle"
    /\ Call("main", "reqStatus", "act_check", c, "live", "rt_status")
    /\ UNCHANGED <<processes, recording_cameras, procs, hour, rot_due, fsvars>>

ReqStatusRecord ==
    /\ pc["main"] = "rt_status"
    /\ Call("main", "reqStatus", "act_check", loc["main"].cam, "record", "done")
    /\ UNCHANGED <<processes, recording_cameras, procs, hour, rot_due, fsvars>>

\* ------------------------------------------------------------ main.py lifespan
\* AUTO_START_RECORDING: for camera_id in normalized_camera_ids
LifespanStartup ==
    /\ pc["main"] = "startup"
    /\ \E auto \in BOOLEAN :
          loc' = [loc EXCEPT !["main"].todo = IF auto THEN CameraIds ELSE <<>>]
    /\ Goto("main", "auto_loop")
    /\ UNCHANGED <<processes, recording_cameras, procs, hour, rot_due, fsvars>>

\* await ffmpeg_manager.start_recording(camera_id, rtsp_url)
LifespanAutoStart ==
    /\ pc["main"] = "auto_loop"
    /\ IF loc["main"].todo # <<>> /\ Len(procs) < MaxProcs
       THEN /\ pc' = [pc EXCEPT !["main"] = "rec_add"]
            /\ loc' = [loc EXCEPT !["main"].op = "autoStart",
                                  !["main"].cam = Head(loc["main"].todo),
                                  !["main"].kind = "record",
                                  !["main"].proc = 0,
                                  !["main"].res = "none",
                                  !["main"].cont = "auto_loop",
                                  !["main"].todo = Tail(loc["main"].todo)]
       ELSE /\ pc' = [pc EXCEPT !["main"] = "idle"]
            /\ loc' = [loc EXCEPT !["main"] = NoLoc]
    /\ UNCHANGED <<processes, recording_cameras, procs, hour, rot_due, fsvars>>

\* after yield: ffmpeg_manager.stop_all_streams()
LifespanShutdown ==
    /\ pc["main"] = "idle"
    /\ Call("main", "shutdown", "sa_list", <<>>, "none", "stopped")
    /\ UNCHANGED <<processes, recording_cameras, procs, hour, rot_due, fsvars>>

\* --------------------------------------------------------------- the program
\* The server with its request handlers and the rotation thread.  (The second
\* scheduler thread is part of SpecLifespan below.)
Init ==
    /\ InitManager
    /\ InitFiles
    /\ pc = [t \in Threads |-> IF t = "main" THEN "startup" ELSE "idle"]

\* run_scheduler: while True: schedule.run_pending(); time.sleep(...).  A
\* daemon thread lives as long as the server process.
SchedulerThread(t) ==
    /\ pc["main"] # "stopped"
    /\ \/ rotate_hourly_recordings(t)
       \/ stop_stream(t)

\* the thread of _start_hourly_scheduler, which polls every 30 seconds
RotationThread == SchedulerThread("rot")

\* the thread of the lifespan, which polls every 60 seconds
CleanupThread == SchedulerThread("sched")

Next ==
    \/ LifespanStartup
    \/ LifespanAutoStart
    \/ \E c \in Cameras, k \in Kinds : ReqStart(c, k)
    \/ ReqStartDecide
    \/ \E c \in Cameras, k \in Kinds : ReqStop(c, k)
    \/ \E c \in Cameras : ReqStatus(c)
    \/ ReqStatusRecord
    \/ LifespanShutdown
    \/ Manager("main")
    \/ Finish("main")
    \/ RotationThread
    \/ ProcessExits
    \/ HourBoundary

Spec == Init /\ [][Next]_vars

\* ------------------------------------------------------------------ strings
\* A string is the sequence of its pieces.  A piece is one character, or a run
\* of characters that no code looks into (a camera id, a date, a fixed part of
\* a URL, a tag of a manifest); such a run holds no white space and does not
\* end a file name.  The characters, in the order of their code points:
Chars == <<"\n", " ", "-", ".", "0", "1", "9", "a", "b", "m", "p", "s", "t">>
Code(ch) == CHOOSE i \in 1..Len(Chars) : Chars[i] = ch
Digits == {"0", "1", "9"}
Whitespace == {"\n", " "}

\* a < b for two str: the first differing character decides, a proper prefix
\* is smaller
RECURSIVE StrLess(_, _)
StrLess(a, b) ==
    IF b = <<>> THEN FALSE
    ELSE IF a = <<>> THEN TRUE
    ELSE IF a[1] = b[1] THEN StrLess(Tail(a), Tail(b))
    ELSE Code(a[1]) < Code(b[1])

\* an ordering of the names that sorts nothing: the larger name first
RECURSIVE Unsorted(_)
Unsorted(names) ==
    IF names = {} THEN <<>>
    ELSE LET m == CHOOSE x \in names : \A y \in names \ {x} : StrLess(y, x)
         IN  <<m>> \o Unsorted(names \ {m})

\* sorted(...) of paths of one directory: ascending by name
RECURSIVE sorted(_)
sorted(names) ==
    IF names = {} THEN <<>>
    ELSE LET m == CHOOSE x \in names : \A y \in names \ {x} : StrLess(x, y)
         IN  <<m>> \o sorted(names \ {m})

\* str.isdigit()
isdigit(name) == name # <<>> /\ \A i \in 1..Len(name) : name[i] \in Digits

\* str.endswith('.ts'), and what glob("*.ts") matches
EndsWithTs(name) ==
    /\ Len(name) >= 3
    /\ SubSeq(name, Len(name) - 2, Len(name)) = <<".", "t", "s">>

\* str.strip(): the white space at both ends goes
RECURSIVE lstrip(_)
lstrip(text) ==
    IF text # <<>> /\ Head(text) \in Whitespace THEN lstrip(Tail(text)) ELSE text

RECURSIVE rstrip(_)
rstrip(text) ==
    IF text # <<>> /\ text[Len(text)] \in Whitespace
    THEN rstrip(SubSeq(text, 1, Len(text) - 1))
    ELSE text

strip(text) == rstrip(lstrip(text))

\* str.split('\n'): the pieces between the newlines, at least one
RECURSIVE split(_)
split(text) ==
    IF \E i \in 1..Len(text) : text[i] = "\n"
    THEN LET i == CHOOSE j \in 1..Len(text) :
                     text[j] = "\n" /\ \A k \in 1..(j - 1) : text[k] # "\n"
         IN  <<SubSeq(text, 1, i - 1)>> \o split(SubSeq(text, i + 1, Len(text)))
    ELSE <<text>>

\* '\n'.join(lines)
RECURSIVE join(_)
join(lines) ==
    IF lines = <<>> THEN <<>>
    ELSE IF Len(lines) = 1 THEN lines[1]
    ELSE lines[1] \o <<"\n">> \o join(Tail(lines))

\* host = os.getenv("HOST", "localhost"); port = os.getenv("PORT", "8000");
\* if host == "0.0.0.0": host = "localhost"; f"http://{host}:{port}"
base_url ==
    LET host == getenv("HOST", "localhost")
        port == getenv("PORT", "8000")
    IN  <<"http://", IF host = "0.0.0.0" THEN "localhost" ELSE host, ":", port>>

\* Path.iterdir(), Path.is_dir(), Path.glob("*.ts") on the model of the tree
iterdir(dir) == {n \in EntryNames : dir.entries[n].type # "none"}
is_dir(dir, n) == dir.entries[n].type = "dir"
GlobTs(dir, n) == {f \in dir.entries[n].files : EndsWithTs(f)}

\* the M3U8 content of lines 317-326: header, one EXTINF and one line per
\* segment, end list
RECURSIVE SegmentEntries(_)
SegmentEntries(segments) ==
    IF segments = <<>> THEN <<>>
    ELSE <<"#EXTINF:60.0,", "\n">> \o Head(segments) \o <<"\n">>
             \o SegmentEntries(Tail(segments))

playlist_content(segments) ==
    <<"#EXTM3U", "\n", "#EXT-X-VERSION:3", "\n", "#EXT-X-TARGETDURATION:60", "\n",
      "#EXT-X-MEDIA-SEQUENCE:0", "\n">>
        \o SegmentEntries(segments) \o <<"#EXT-X-ENDLIST", "\n">>

\* f"{base_url}/hls/{camera_id}/recordings/{date}/{hour}/{segment_file.name}"
SegmentUrl(camera_id, date, hour_name, file_name) ==
    base_url \o <<"/hls/">> \o camera_id \o <<"/recordings/">> \o date \o <<"/">>
        \o hour_name \o <<"/">> \o file_name

\* generate_recording_playlist_by_hour:
\* for segment_file in sorted(hour_dir.glob("*.ts")): segments.append(...)
HourSegments(camera_id, date, dir, hour_name) ==
    LET files == sorted(GlobTs(dir, hour_name))
    IN  [i \in 1..Len(files) |-> SegmentUrl(camera_id, date, hour_name, files[i])]

\* generate_recording_playlist, inside the loop over the hour directories:
\* for segment_file in sorted(hour_dir.glob("*.ts")): segments.append(...)
\* with hour = hour_dir.name
ScanHourDir(camera_id, date, dir, hour_dir) ==
    LET files == sorted(GlobTs(dir, hour_dir))
    IN  [i \in 1..Len(files) |-> SegmentUrl(camera_id, date, hour_dir, files[i])]

\* a scan that takes every directory for an hour, whatever its name
RECURSIVE DateSegments_AnyDir(_, _, _, _)
DateSegments_AnyDir(camera_id, date, dir, hour_dirs) ==
    IF hour_dirs = <<>> THEN <<>>
    ELSE (IF is_dir(dir, Head(hour_dirs))
          THEN ScanHourDir(camera_id, date, dir, Head(hour_dirs))
          ELSE <<>>)
            \o DateSegments_AnyDir(camera_id, date, dir, Tail(hour_dirs))

\* for hour_dir in sorted(recording_dir.iterdir()):
\*     if hour_dir.is_dir() and hour_dir.name.isdigit(): ...
RECURSIVE DateSegments(_, _, _, _)
DateSegments(camera_id, date, dir, hour_dirs) ==
    IF hour_dirs = <<>> THEN <<>>
    ELSE (IF is_dir(dir, Head(hour_dirs)) /\ isdigit(Head(hour_dirs))
          THEN ScanHourDir(camera_id, date, dir, Head(hour_dirs))
          ELSE <<>>)
            \o DateSegments(camera_id, date, dir, Tail(hour_dirs))

\* generate_recording_playlist: what it returns
RecordingPlaylist(camera_id, date) ==
    LET dir == recording_dir(camera_id, date)
        segments == DateSegments(camera_id, date, dir, sorted(iterdir(dir)))
    IN  IF ~dir.exists \/ segments = <<>>
        THEN [absent |-> TRUE, text |-> <<>>]
        ELSE [absent |-> FALSE, text |-> playlist_content(segments)]

generate_recording_playlist(camera_id, date) ==
    /\ reply' = [op |-> "reconstruct", cam |-> camera_id, date |-> date, hour |-> <<>>,
                 absent |-> RecordingPlaylist(camera_id, date).absent,
                 text |-> RecordingPlaylist(camera_id, date).text]
    /\ UNCHANGED <<processes, recording_cameras, procs, hour, rot_due, pc, loc,
                   hls, environ, logs, deleted>>

\* a by-hour playlist that scans the whole date
HourPlaylist_WholeDate(camera_id, date, hour_name) ==
    RecordingPlaylist(camera_id, date)

\* generate_recording_playlist_by_hour: hour_dir.exists(), then the "*.ts"
\* files of that one directory (a plain file of that name has none)
HourPlaylist(camera_id, date, hour_name) ==
    LET dir == recording_dir(camera_id, date)
        segments == HourSegments(camera_id, date, dir, hour_name)
    IN  IF ~dir.exists \/ dir.entries[hour_name].type = "none" \/ segments = <<>>
        THEN [absent |-> TRUE, text |-> <<>>]
        ELSE [absent |-> FALSE, text |-> playlist_content(segments)]

generate_recording_playlist_by_hour(camera_id, date, hour_name) ==
    /\ reply' = [op |-> "reconstructHour", cam |-> camera_id, date |-> date,
                 hour |-> hour_name,
                 absent |-> HourPlaylist(camera_id, date, hour_name).absent,
                 text |-> HourPlaylist(camera_id, date, hour_name).text]
    /\ UNCHANGED <<processes, recording_cameras, procs, hour, rot_due, pc, loc,
                   hls, environ, logs, deleted>>

\* if line.endswith('.ts'): f"{base_url}/hls/{camera_id}/live/{line}"
\* else: the line as it is
AbsoluteLine(camera_id, line) ==
    IF EndsWithTs(line)
    THEN base_url \o <<"/hls/">> \o camera_id \o <<"/live/">> \o line
    ELSE line

\* a rewrite that closes the manifest with an end list
LivePlaylist_Terminated(camera_id) ==
    LET file == playlist_path(camera_id)
        lines == split(strip(file.text))
        modified_lines == [i \in 1..Len(lines) |-> AbsoluteLine(camera_id, lines[i])]
    IN  IF ~file.exists
        THEN [absent |-> TRUE, text |-> <<>>]
        ELSE [absent |-> FALSE, text |-> join(Append(modified_lines, <<"#EXT-X-ENDLIST">>))]

\* get_live_stream_playlist_with_absolute_urls: what it returns
LivePlaylist(camera_id) ==
    LET file == playlist_path(camera_id)
        lines == split(strip(file.text))
        modified_lines == [i \in 1..Len(lines) |-> AbsoluteLine(camera_id, lines[i])]
    IN  IF ~file.exists
        THEN [absent |-> TRUE, text |-> <<>>]
        ELSE [absent |-> FALSE, text |-> join(modified_lines)]

get_live_stream_playlist_with_absolute_urls(camera_id) ==
    /\ reply' = [op |-> "liveManifest", cam |-> camera_id, date |-> <<>>, hour |-> <<>>,
                 absent |-> LivePlaylist(camera_id).absent,
                 text |-> LivePlaylist(camera_id).text]
    /\ UNCHANGED <<processes, recording_cameras, procs, hour, rot_due, pc, loc,
                   hls, environ, logs, deleted>>

\* ------------------------------------------------- the playlists on their own
\* The three playlist methods read the tree and the environment and change
\* nothing.  They are run on every tree of the shapes below: the recordings of
\* one date of one camera, or the live manifest of one camera.
\* What a date directory may hold under each name: the hour directories 09 and
\* 11 with any of the files, a plain file named 10, a directory tmp.
EntryChoices(n) ==
    IF isdigit(n)
    THEN IF n = <<"1", "0">>
         THEN {NoEntry, PlainFile}
         ELSE {NoEntry} \cup {Directory(files) : files \in SUBSET FileNames}
    ELSE {NoEntry, Directory({<<"a", ".", "t", "s">>})}

DateDirs ==
    {[exists |-> TRUE, entries |-> e] :
        e \in {f \in [EntryNames -> UNION {EntryChoices(n) : n \in EntryNames}] :
                  \A n \in EntryNames : f[n] \in EntryChoices(n)}}

\* The live manifest as the transcoder writes it: lines without white space,
\* each ended by a newline.
ManifestLines ==
    {<<"#EXTM3U">>, <<"#EXTINF:4.000000,">>, <<"segment_000", ".", "t", "s">>,
     <<"#EXT-X-ENDLIST">>}

RECURSIVE Terminated(_)
Terminated(lines) ==
    IF lines = <<>> THEN <<>>
    ELSE Head(lines) \o <<"\n">> \o Terminated(Tail(lines))

Manifests ==
    {[exists |-> TRUE, text |-> Terminated(lines)] :
        lines \in UNION {[1..n -> ManifestLines] : n \in 1..MaxLines}}

Environs ==
    {NoEnviron,
     [NoEnviron EXCEPT !.HOST = "0.0.0.0", !.PORT = "9000"],
     [NoEnviron EXCEPT !.HOST = "cam.lan"]}

InitPlaylist ==
    /\ InitManager
    /\ pc = [t \in Threads |-> "idle"]
    /\ hls \in {[NoFiles EXCEPT !.recordings = {[cam |-> c, date |-> d, dir |-> dir]}] :
                    c \in Cameras, d \in Dates, dir \in DateDirs}
               \cup {[NoFiles EXCEPT !.live = {[cam |-> c, file |-> file]}] :
                        c \in Cameras, file \in Manifests}
    /\ environ \in Environs
    /\ reply = None
    /\ deleted = {}

NextPlaylist ==
    \/ \E c \in Cameras, d \in Dates : generate_recording_playlist(c, d)
    \/ \E c \in Cameras, d \in Dates, h \in EntryNames :
          generate_recording_playlist_by_hour(c, d, h)
    \/ \E c \in Cameras : get_live_stream_playlist_with_absolute_urls(c)

SpecPlaylist == InitPlaylist /\ [][NextPlaylist]_vars

\* ------------------------------------------- the server without any request
\* The lifespan alone: the recordings are started at startup, the two
\* scheduler threads run the rotation at the hour boundaries, and the
\* shutdown stops everything.
NextLifespan ==
    \/ LifespanStartup
    \/ LifespanAutoStart
    \/ LifespanShutdown
    \/ start_recording("main")
    \/ stop_all_streams("main")
    \/ RotationThread
    \/ CleanupThread
    \/ ProcessExits
    \/ HourBoundary

SpecLifespan == Init /\ [][NextLifespan]_vars

\* ------------------------------------ the recordings, stopped by their users
\* The recordings are started at startup; users stop them through the route
\* while the two scheduler threads rotate them.
NextStop ==
    \/ LifespanStartup
    \/ LifespanAutoStart
    \/ start_recording("main")
    \/ \E c \in Cameras : ReqStop(c, "record")
    \/ stop_stream("main")
    \/ Finish("main")
    \/ RotationThread
    \/ CleanupThread
    \/ ProcessExits
    \/ HourBoundary

SpecStop == Init /\ [][NextStop]_vars

\* ------------------------------------------------- the start and stop routes
\* The server after a startup that started nothing: start and stop requests
\* for the streams of a camera, the rotation thread, processes that exit.
NextRoutes ==
    \/ \E k \in Kinds : ReqStart(CameraIds[1], k)
    \/ ReqStartDecide
    \/ \E k \in Kinds : ReqStop(CameraIds[1], k)
    \/ is_stream_active("main")
    \/ start_recording("main")
    \/ start_live_stream("main")
    \/ stop_stream("main")
    \/ Finish("main")
    \/ RotationThread
    \/ ProcessExits
    \/ HourBoundary

SpecRoutes == InitApi /\ [][NextRoutes]_vars

\* ------------------------------------------------ camera ids of any text
\* The manager is used with camera ids that hold the texts "record_" and
\* "live_" themselves, and the rotation lists the cameras to rotate.
Identifiers == {<<"7">>, <<"record", "_", "7">>, <<"live", "_", "7">>}

NextKeys ==
    \/ \E c \in Identifiers, k \in Kinds : ApiStart(c, k)
    \/ start_recording("main")
    \/ start_live_stream("main")
    \/ Finish("main")
    \/ RotationThread
    \/ HourBoundary

SpecKeys == InitApi /\ [][NextKeys]_vars

\* ------------------------------------------------- the log threads at work
\* One caller starts the streams of a camera that are not registered yet; the
\* processes write to their stderr and exit, and the log threads read.  The operating system schedules every thread
\* again and again: a log thread that can take a step will take it, and so
\* will the caller inside start_live_stream and start_recording.
NextLog ==
    \/ \E k \in Kinds : /\ ~Has(processes, ProcessKey(k, CameraIds[1]))
                         /\ ApiStart(CameraIds[1], k)
    \/ start_recording("main")
    \/ start_live_stream("main")
    \/ Finish("main")
    \/ ProcessExits
    \/ \E p \in 1..MaxProcs : FfmpegWrites(p)
    \/ \E p \in 1..MaxProcs : log_output(p)

SpecLog ==
    /\ InitApi
    /\ [][NextLog]_vars
    /\ \A p \in 1..MaxProcs : WF_vars(log_output(p))
    /\ WF_vars(start_recording("main") \/ start_live_stream("main"))

\* ------------------------------------------------------------ utils/cleanup.py
\* The run begins in the last hour of a day: the first hour boundary is
\* midnight.  A recording writes into the folder of the date and the hour at
\* which it was started.
HoursPerDay == 24
FirstHour == 23
DayOf(h) == (FirstHour + h) \div HoursPerDay

\* int(os.getenv("RECORDING_RETENTION_DAYS", "1"))
int(text) == IF text = "0" THEN 0 ELSE IF text = "1" THEN 1 ELSE 2
retention_days == int(getenv("RECORDING_RETENTION_DAYS", "1"))

\* cutoff_date = datetime.now() - timedelta(days=self.retention_days); the
\* date folders with folder_name < cutoff_date_str, of every camera.  (The
\* dates are YYYY-MM-DD, so the order of the names is the order of the days.)
OldFolders ==
    {[cam |-> c, day |-> d] : c \in Cameras,
                              d \in {x \in 0..DayOf(hour) : x + retention_days < DayOf(hour)}}

\* The days that the clock of a run shows, and the day before them, as
\* strftime("%Y-%m-%d") writes them: the run begins on the 10th of October
\* 1999.
strftime(day) ==
    <<"1", "9", "9", "9", "-", "1", "0", "-">>
        \o (IF day < 0 THEN <<"0", "9">> ELSE IF day = 0 THEN <<"1", "0">> ELSE <<"1", "1">>)
cutoff_date_str == strftime(DayOf(hour) - retention_days)

\* the fields of a name between its separators
RECURSIVE Fields(_, _)
Fields(text, sep) ==
    IF \E i \in 1..Len(text) : text[i] = sep
    THEN LET i == CHOOSE k \in 1..Len(text) :
                      text[k] = sep /\ \A j \in 1..(k - 1) : text[j] # sep
         IN  <<SubSeq(text, 1, i - 1)>> \o Fields(SubSeq(text, i + 1, Len(text)), sep)
    ELSE <<text>>

\* the number that a run of digits writes
DigitValue(ch) == CASE ch = "0" -> 0 [] ch = "1" -> 1 [] ch = "9" -> 9
RECURSIVE Number(_)
Number(digits) ==
    IF digits = <<>> THEN 0
    ELSE 10 * Number(SubSeq(digits, 1, Len(digits) - 1)) + DigitValue(digits[Len(digits)])

\* the days of a month
DaysIn(year, month) ==
    IF month = 2
    THEN IF year % 4 = 0 /\ (year % 100 # 0 \/ year % 400 = 0) THEN 29 ELSE 28
    ELSE IF month \in {4, 6, 9, 11} THEN 30 ELSE 31

\* _is_valid_date_folder: datetime.strptime(folder_name, "%Y-%m-%d") does not
\* raise ValueError.  %Y is four digits, %m and %d are one or two digits, and
\* the three numbers are a day of the calendar.
is_valid_date_folder(folder_name) ==
    LET f == Fields(folder_name, "-")
    IN  /\ Len(f) = 3
        /\ isdigit(f[1]) /\ Len(f[1]) = 4 /\ Number(f[1]) >= 1
        /\ isdigit(f[2]) /\ Len(f[2]) <= 2 /\ Number(f[2]) \in 1..12
        /\ isdigit(f[3]) /\ Len(f[3]) <= 2
        /\ Number(f[3]) \in 1..DaysIn(Number(f[1]), Number(f[2]))

\* _cleanup_camera_recordings: the date folders of one camera that the sweep
\* removes.  A folder goes when its name is a date for strptime and is, as a
\* str, below the cutoff; when rmtree raises, the folder stays, is not counted
\* and the loop goes on.  (What rmtree has removed inside a folder before it
\* raised is not modelled.)
cleanup_camera_recordings(camera_id, cutoff) ==
    {r \in hls.recordings :
        /\ r.cam = camera_id
        /\ r.dir.exists
        /\ is_valid_date_folder(r.date) /\ StrLess(r.date, cutoff)
        /\ [cam |-> r.cam, date |-> r.date] \notin hls.locked}

\* cleanup_old_recordings: shutil.rmtree of every old date folder of every
\* camera, and the count of the folders removed.  The folders of the tree are
\* removed by name; the folders of the recordings of the run, of which the
\* model does not know which exist, are collected in deleted and not counted.
cleanup_old_recordings ==
    LET removed == UNION {cleanup_camera_recordings(c, cutoff_date_str) :
                              c \in {r.cam : r \in hls.recordings}}
    IN  /\ hls' = [hls EXCEPT !.recordings = @ \ removed]
        /\ reply' = [None EXCEPT !.op = "cleanup", !.absent = FALSE,
                                 !.text = <<Cardinality(removed)>>]
        /\ deleted' = deleted \cup OldFolders

\* POST /api/cleanup
api_cleanup ==
    /\ pc["main"] = "idle"
    /\ cleanup_old_recordings
    /\ UNCHANGED <<processes, recording_cameras, procs, hour, rot_due, pc, loc,
                   environ, logs>>

\* The server that records and is asked to clean up, for a retention of no
\* day and of one day.  (The initial cleanup of the lifespan runs before any
\* recording is started, and the daily job of 02:00 is not due in the hours
\* of a run.)
Retentions == {NoEnviron, [NoEnviron EXCEPT !.RECORDING_RETENTION_DAYS = "0"]}

InitCleanup ==
    /\ InitManager
    /\ hls = NoFiles
    /\ environ \in Retentions
    /\ reply = None
    /\ deleted = {}
    /\ pc = [t \in Threads |-> IF t = "main" THEN "startup" ELSE "idle"]

NextCleanup ==
    \/ LifespanStartup
    \/ LifespanAutoStart
    \/ start_recording("main")
    \/ api_cleanup
    \/ RotationThread
    \/ ProcessExits
    \/ HourBoundary

SpecCleanup == InitCleanup /\ [][NextCleanup]_vars

\* The server that is asked to clean up a tree of folders that earlier runs
\* and the operator have left: under recordings of the first camera any of
\* the names below, under recordings of the second camera nothing or one old
\* folder; any of the folders may be one that rmtree cannot remove.
FolderNames ==
    {<<"1", "9", "9", "9", "-", "1", "0", "-", "0", "1">>,
     <<"1", "9", "9", "9", "-", "1", "0", "-", "0", "9">>,
     <<"1", "9", "9", "9", "-", "1", "0", "-", "1", "0">>,
     <<"1", "9", "9", "9", "-", "9", "-", "9">>,
     <<"1", "9", "9", "9", "-", "1", "-", "9">>,
     <<"1", "9", "9", "9", "-", "0", "9", "-", "9", "9">>,
     <<"t", "m", "p">>}

Folder(camera_id, name) ==
    [cam |-> camera_id, date |-> name, dir |-> [NoDateDir EXCEPT !.exists = TRUE]]

Trees ==
    {[NoFiles EXCEPT !.recordings = {Folder(CameraIds[1], n) : n \in names}
                                        \cup {Folder(CameraIds[2], n) : n \in other},
                     !.locked = {[cam |-> CameraIds[1], date |-> n] : n \in held}] :
        names \in SUBSET FolderNames,
        other \in SUBSET {<<"1", "9", "9", "9", "-", "1", "0", "-", "0", "1">>},
        held \in SUBSET FolderNames}

InitSweep ==
    /\ InitManager
    /\ pc = [t \in Threads |-> "idle"]
    /\ hls \in {tree \in Trees : \A l \in tree.locked :
                                    \E r \in tree.recordings : r.cam = l.cam /\ r.date = l.date}
    /\ environ \in Retentions
    /\ reply = None
    /\ deleted = {}

NextSweep ==
    \/ api_cleanup
    \/ HourBoundary

SpecSweep == InitSweep /\ [][NextSweep]_vars

\* =================================================================== claims
\* the running processes that were started for a key
RunningFor(key) == {p \in 1..Len(procs) : Running(p) /\ procs[p].key = key}

\* what is_stream_active(camera, kind) would answer in this state
IsActive(c, k) ==
    /\ Has(processes, ProcessKey(k, c))
    /\ Running(Get(processes, ProcessKey(k, c)))

\* C1: when start(camera, kind) has returned success, at most one transcoder
\* process runs for that key: a second start made while the first process is
\* still running sees the handle and spawns nothing.
C1_StartTwiceOneProcess ==
    (pc["main"] = "done" /\ loc["main"].op = "start" /\ loc["main"].res = "True")
        => Cardinality(RunningFor(MyKey("main"))) <= 1

\* C2: under every interleaving of the request handlers with the rotation
\* thread, every running process is the one the registry holds under its key
\* (or the one a start in progress is about to register), and no key has two
\* running processes.
C2_OneLiveProcessPerKey ==
    \A p \in 1..Len(procs) :
        Running(p) =>
            /\ \/ /\ Has(processes, procs[p].key)
                  /\ Get(processes, procs[p].key) = p
               \/ \E t \in Threads :
                     pc[t] \in {"rec_reg", "live_reg"} /\ loc[t].proc = p
            /\ RunningFor(procs[p].key) = {p}

\* the rotation thread has executed the restart statement for camera c
RotationPastRestart(c) ==
    /\ loc["rot"].op = "rotate"
    /\ loc["rot"].cam = c
    /\ pc["rot"] \notin {"stop_check", "stop_read", "stop_term", "stop_kill",
                         "stop_del", "stop_discard", "rot_restart"}

\* C3: once the rotation thread is through with the restart of a camera, the
\* registry holds a record handle for it whose process runs and writes into
\* the directory of the current hour.
C3_RotationReplacesHandle ==
    \A c \in Cameras :
        RotationPastRestart(c) =>
            /\ Has(processes, ProcessKey("record", c))
            /\ Running(Get(processes, ProcessKey("record", c)))
            /\ procs[Get(processes, ProcessKey("record", c))].hour = hour

\* C4: no step the rotation thread takes while it rotates a camera removes
\* that camera from the actively-recording set.
C4_RotationKeepsTracking ==
    [][(/\ loc["rot"].op = "rotate"
        /\ pc'["rot"] # pc["rot"]
        /\ loc["rot"].cam \in recording_cameras)
          => loc["rot"].cam \in recording_cameras']_vars

\* C5: when stop(camera, kind) has returned stopped, the registry holds no
\* handle for the key and isActive answers false.
C5_StopRemovesHandle ==
    (pc["main"] = "done" /\ loc["main"].op = "stop" /\ loc["main"].res = "True")
        => /\ ~Has(processes, MyKey("main"))
           /\ ~IsActive(loc["main"].cam, loc["main"].kind)

\* a stop of a registered key has returned stopped
C5_Witness ==
    /\ pc["main"] = "done"
    /\ loc["main"].op = "stop"
    /\ loc["main"].res = "True"
    /\ loc["main"].proc # 0

\* C6: stop on a key without a handle returns wasNotActive and changes neither
\* the registry nor the actively-recording set, so that repeating it gives the
\* same answer in the same state.
C6_StopAbsentIsNoOp ==
    [][(/\ pc["main"] = "stop_check"
        /\ loc["main"].op = "stop"
        /\ ~Has(processes, MyKey("main"))
        /\ pc'["main"] # pc["main"])
          => /\ pc'["main"] = "done"
             /\ loc'["main"].res = "False"
             /\ processes' = processes
             /\ recording_cameras' = recording_cameras]_vars

\* stop has answered wasNotActive while another camera is being recorded
C6_Witness ==
    /\ pc["main"] = "done"
    /\ loc["main"].op = "stop"
    /\ loc["main"].res = "False"
    /\ loc["main"].proc = 0
    /\ recording_cameras # {}
    /\ processes # <<>>

\* C7: isActive never raises; it answers whether the key has a handle whose
\* process runs, and when it answers false the handle is gone (a stale handle
\* is removed, an absent one is no error).
C7_IsActiveReapsStale ==
    [][(/\ loc["main"].op = "isActive"
        /\ pc["main"] \in {"act_check", "act_read", "act_poll", "act_del"}
        /\ pc'["main"] = "done")
          => /\ loc'["main"].res =
                  (IF IsActive(loc["main"].cam, loc["main"].kind) THEN "True" ELSE "False")
             /\ (~IsActive(loc["main"].cam, loc["main"].kind)
                    => ~Has(processes', MyKey("main")))]_vars

\* isActive has found the process of its handle exited (on its own: a stop
\* would have removed the handle), has removed the handle and answered false
C7_Witness ==
    /\ pc["main"] = "done"
    /\ loc["main"].op = "isActive"
    /\ loc["main"].res = "False"
    /\ loc["main"].proc # 0
    /\ procs[loc["main"].proc].status = "exited"
    /\ ~Has(processes, MyKey("main"))

\* C8: when the loop of stopAll is over every registered process has exited,
\* and when stopAll has returned the registry is empty.
C8_StopAllStopsEverything ==
    /\ (pc["main"] = "sa_loop" /\ loc["main"].op = "stopAll" /\ loc["main"].todo = <<>>)
          => \A i \in 1..Len(processes) : ~Running(processes[i].proc)
    /\ (pc["main"] = "done" /\ loc["main"].op = "stopAll")
          => processes = <<>>

\* the loop of stopAll is over two streams of distinct cameras and kinds, one
\* of which had to be killed while the other exited on SIGTERM
C8_Witness ==
    /\ pc["main"] = "sa_loop"
    /\ loc["main"].op = "stopAll"
    /\ loc["main"].todo = <<>>
    /\ \E i, j \in 1..Len(processes) :
          /\ processes[i].key[1] # processes[j].key[1]
          /\ processes[i].key[3] # processes[j].key[3]
          /\ procs[processes[i].proc].status = "killed"
          /\ procs[processes[j].proc].status = "exited"

\* C9: while stop terminates or kills the process the handle stays registered;
\* the handle is removed only when the process has exited; and a stop that
\* found a handle reports stopped, also when it had to kill.
C9_StopEscalates ==
    /\ (loc["main"].op = "stop" /\ pc["main"] \in {"stop_term", "stop_kill", "stop_del"})
          => /\ Has(processes, MyKey("main"))
             /\ Get(processes, MyKey("main")) = loc["main"].proc
    /\ (loc["main"].op = "stop" /\ pc["main"] = "stop_del")
          => ~Running(loc["main"].proc)
    /\ (loc["main"].op = "stop" /\ pc["main"] = "done" /\ loc["main"].proc # 0)
          => /\ loc["main"].res = "True"
             /\ ~Running(loc["main"].proc)
             /\ ~Has(processes, MyKey("main"))

\* stop has killed a process that ignored SIGTERM and has reported stopped
C9_Witness ==
    /\ pc["main"] = "done"
    /\ loc["main"].op = "stop"
    /\ loc["main"].res = "True"
    /\ loc["main"].proc # 0
    /\ procs[loc["main"].proc].status = "killed"

\* C10: no step taken while status(camera, kind) runs changes the registry or
\* the actively-recording set.
C10_StatusReadOnly ==
    [][(loc["main"].op = "status" /\ pc["main"] \in {"status_check", "status_read"})
          => /\ processes' = processes
             /\ recording_cameras' = recording_cameras]_vars

\* status has reported an exited process and its stale handle is still there
C10_Witness ==
    /\ pc["main"] = "done"
    /\ loc["main"].op = "status"
    /\ loc["main"].res = "False"
    /\ Has(processes, MyKey("main"))
    /\ ~Running(Get(processes, MyKey("main")))

\* ---------------------------------------------------------------- playlists
\* the lines of a text, each one ended by a newline
RECURSIVE LinesOf(_)
LinesOf(text) ==
    IF text = <<>> THEN <<>>
    ELSE IF \A i \in 1..Len(text) : text[i] # "\n" THEN <<text>>
    ELSE LET n == CHOOSE i \in 1..Len(text) :
                     text[i] = "\n" /\ \A k \in 1..(i - 1) : text[k] # "\n"
         IN  <<SubSeq(text, 1, n - 1)>> \o LinesOf(SubSeq(text, n + 1, Len(text)))

\* the hour a digit-named directory stands for
RECURSIVE HourValue(_)
HourValue(name) ==
    IF name = <<>> THEN 0
    ELSE 10 * HourValue(SubSeq(name, 1, Len(name) - 1))
            + (CHOOSE v \in 0..9 : <<"0", "1", "2", "3", "4", "5", "6", "7", "8", "9">>[v + 1]
                                       = name[Len(name)])

\* the segment files under a date directory: (hour, file) for every file
\* ending in .ts of a directory that has a digit name
SegmentFiles(c, d) ==
    LET dir == recording_dir(c, d)
    IN  {hf \in EntryNames \X FileNames :
            /\ dir.exists
            /\ dir.entries[hf[1]].type = "dir"
            /\ isdigit(hf[1])
            /\ hf[2] \in dir.entries[hf[1]].files
            /\ EndsWithTs(hf[2])}

\* <base_url>/hls/<camera>/recordings/<date>/<hour>/<file>
RecordingUrl(c, d, hf) ==
    base_url \o <<"/hls/">> \o c \o <<"/recordings/">> \o d \o <<"/">> \o hf[1]
        \o <<"/">> \o hf[2]

\* ascending hour, and within an hour ascending file name
SegmentBefore(hf1, hf2) ==
    \/ HourValue(hf1[1]) < HourValue(hf2[1])
    \/ hf1[1] = hf2[1] /\ StrLess(hf1[2], hf2[2])

\* the text is a terminated manifest with one EXTINF:60.0 entry for each of
\* the segments, in ascending order
ManifestOf(text, c, d, segs) ==
    LET lines == LinesOf(text)
        n == Cardinality(segs)
    IN  /\ Len(lines) = 2 * n + 5
        /\ SubSeq(lines, 1, 4) = << <<"#EXTM3U">>, <<"#EXT-X-VERSION:3">>,
                                    <<"#EXT-X-TARGETDURATION:60">>,
                                    <<"#EXT-X-MEDIA-SEQUENCE:0">> >>
        /\ lines[2 * n + 5] = <<"#EXT-X-ENDLIST">>
        /\ \A k \in 1..n :
              /\ lines[2 * k + 3] = <<"#EXTINF:60.0,">>
              /\ \E hf \in segs : lines[2 * k + 4] = RecordingUrl(c, d, hf)
        /\ \A hf \in segs : \E k \in 1..n : lines[2 * k + 4] = RecordingUrl(c, d, hf)
        /\ \A k1, k2 \in 1..n : \A hf1, hf2 \in segs :
              (/\ k1 < k2
               /\ lines[2 * k1 + 4] = RecordingUrl(c, d, hf1)
               /\ lines[2 * k2 + 4] = RecordingUrl(c, d, hf2))
                  => SegmentBefore(hf1, hf2)

HourFiles(c, d, h) ==
    LET dir == recording_dir(c, d)
    IN  {hf \in {h} \X FileNames :
            /\ dir.exists
            /\ dir.entries[h].type = "dir"
            /\ hf[2] \in dir.entries[h].files
            /\ EndsWithTs(hf[2])}

\* C12: reconstructHour(camera, date, hour) is absent when the hour directory
\* does not exist or holds no .ts file; otherwise it is a terminated manifest
\* of exactly the .ts files of that directory in ascending name order, one
\* EXTINF:60.0 entry and one absolute URL each, and of no other hour.
C12_ReconstructHourListsOneHour ==
    reply.op = "reconstructHour" =>
        IF HourFiles(reply.cam, reply.date, reply.hour) = {}
        THEN reply.absent
        ELSE /\ ~reply.absent
             /\ ManifestOf(reply.text, reply.cam, reply.date,
                           HourFiles(reply.cam, reply.date, reply.hour))

\* hour 09 with two segments has been reconstructed while hour 11 holds
\* segments too
C12_Witness ==
    /\ reply.op = "reconstructHour"
    /\ ~reply.absent
    /\ reply.hour = <<"0", "9">>
    /\ Cardinality(HourFiles(reply.cam, reply.date, reply.hour)) = 2
    /\ HourFiles(reply.cam, reply.date, <<"1", "1">>) # {}

\* C13: liveManifestAbsoluteURLs(camera) is absent when the live manifest file
\* does not exist; otherwise its lines are the lines of the manifest, in their
\* order, a line ending in .ts replaced by <base_url>/hls/<camera>/live/<line>
\* and every other line as it was; no end-list line is added.
C13_LiveManifestRewritesSegments ==
    reply.op = "liveManifest" =>
        IF ~playlist_path(reply.cam).exists
        THEN reply.absent
        ELSE LET before == LinesOf(playlist_path(reply.cam).text)
                 after == LinesOf(reply.text \o <<"\n">>)
             IN  /\ ~reply.absent
                 /\ Len(after) = Len(before)
                 /\ \A i \in 1..Len(before) :
                       after[i] = IF EndsWithTs(before[i])
                                  THEN base_url \o <<"/hls/">> \o reply.cam \o <<"/live/">>
                                          \o before[i]
                                  ELSE before[i]

\* a manifest with a header, a segment line and no end list has been rewritten
C13_Witness ==
    /\ reply.op = "liveManifest"
    /\ ~reply.absent
    /\ LET before == LinesOf(playlist_path(reply.cam).text)
       IN  /\ Len(before) = 3
           /\ before[1] = <<"#EXTM3U">>
           /\ EndsWithTs(before[3])
           /\ \A i \in 1..3 : before[i] # <<"#EXT-X-ENDLIST">>

\* ------------------------------------------------------- failures and frames
\* C14: when start has returned failure, the registry and the
\* actively-recording set are what they were when start was called.
C14_FailedStartChangesNothing ==
    (pc["main"] = "done" /\ loc["main"].op = "start" /\ loc["main"].res = "False")
        => /\ processes = loc["main"].before.processes
           /\ recording_cameras = loc["main"].before.recording_cameras

\* C15: a failure while the rotation handles one camera does not leave the
\* rotation job: after the restart statement of a camera the job goes on with
\* the next camera, and the scheduler thread stays alive for the next hour.
C15_RotationFailureIsolated == pc["rot"] # "dead"

\* C16: when the stop of the rotation has answered wasNotActive, the next step
\* of the rotation goes on with the loop over the cameras.
C16_RotationToleratesNotActive ==
    [][(/\ pc["rot"] = "rot_restart"
        /\ loc["rot"].res = "False"
        /\ pc'["rot"] # pc["rot"])
          => pc'["rot"] = "rot_loop"]_vars

\* C17: once the shutdown has returned from stopAll, no process that the
\* manager has spawned is running.
C17_ShutdownLeavesNoOrphan ==
    pc["main"] = "stopped" => \A p \in 1..Len(procs) : ~Running(p)

\* the caller's thread takes a step of one of the per-key operations
KeyOpStep ==
    /\ loc["main"].op \in {"start", "stop", "isActive", "status"}
    /\ (pc'["main"] # pc["main"] \/ loc'["main"] # loc["main"])

\* C18: no step of start, stop, isActive or status on a key changes the
\* registry entry of another key or a process that was started for another key.
C18_OtherKeysUntouched ==
    [][KeyOpStep =>
          /\ \A c \in Cameras, k \in Kinds :
                ProcessKey(k, c) # MyKey("main") =>
                   /\ Has(processes', ProcessKey(k, c)) = Has(processes, ProcessKey(k, c))
                   /\ Has(processes, ProcessKey(k, c)) =>
                         Get(processes', ProcessKey(k, c)) = Get(processes, ProcessKey(k, c))
          /\ \A p \in 1..Len(procs) :
                procs[p].key # MyKey("main") => procs'[p] = procs[p]]_vars

\* a stop has stopped the record stream of a camera whose live stream is
\* registered and still runs
C18_Witness ==
    /\ pc["main"] = "done"
    /\ loc["main"].op = "stop"
    /\ loc["main"].kind = "record"
    /\ loc["main"].res = "True"
    /\ IsActive(loc["main"].cam, "live")

\* C19: the shutdown's stopAll goes on after a failure on one handle: when its
\* loop is over every registered process has exited, and it ends with the
\* registry cleared, never with an error.
C19_StopAllIsolatesFailures ==
    /\ (pc["main"] = "sa_loop" /\ loc["main"].op = "shutdown" /\ loc["main"].todo = <<>>)
          => \A i \in 1..Len(processes) : ~Running(processes[i].proc)
    /\ (loc["main"].op = "shutdown" /\ pc["main"] \notin {"sa_list", "sa_loop", "sa_term", "sa_kill"})
          => (pc["main"] = "stopped" /\ processes = <<>>)

\* the loop of the shutdown's stopAll is over after the lookup of one handle
\* has failed (the rotation had removed it), and another handle is registered
C19_Witness ==
    /\ pc["main"] = "sa_loop"
    /\ loc["main"].op = "shutdown"
    /\ loc["main"].todo = <<>>
    /\ loc["main"].res = "failed"
    /\ processes # <<>>

\* C20: a stop of a registered record handle that has returned stopped has
\* removed the camera from the actively-recording set, and no step of an
\* operation on a live key changes that set.
C20_OnlyRecordStopDiscards ==
    [][/\ (KeyOpStep /\ loc["main"].kind = "live")
            => recording_cameras' = recording_cameras
       /\ (/\ KeyOpStep
           /\ loc["main"].op = "stop"
           /\ loc["main"].kind = "record"
           /\ pc'["main"] = "done"
           /\ loc'["main"].res = "True")
            => loc["main"].cam \notin recording_cameras']_vars

\* the record stream of a tracked camera has been stopped while another
\* camera is tracked and the camera's live stream is registered
C20_Witness ==
    /\ pc["main"] = "done"
    /\ loc["main"].op = "stop"
    /\ loc["main"].kind = "record"
    /\ loc["main"].res = "True"
    /\ loc["main"].cam \notin recording_cameras
    /\ recording_cameras # {}
    /\ Has(processes, ProcessKey("live", loc["main"].cam))

\* ------------------------------------------------ rotation and the schedulers
\* C21: the rotation restarts a recording with the URL that the recording was
\* last started with.  While the rotation works on a camera, the URL it has
\* fetched for the restart is the URL that the running recording of the
\* camera reads.
C21_RotationKeepsUrl ==
    \A t \in Threads :
        loc[t].op = "rotate" =>
            \A p \in 1..Len(procs) :
                (Running(p) /\ procs[p].key = ProcessKey("record", loc[t].cam))
                    => procs[p].url = get_camera_rtsp_url(loc[t].cam)

\* a scheduler thread is inside the hourly job
InRotation(t) == pc[t] \notin {"idle", "dead"}

\* C22: the rotation runs once for an hour boundary, although both scheduler
\* threads run the pending jobs of the shared scheduler: the two threads are
\* never inside the rotation at the same time.
C22_RotationOncePerBoundary == ~(InRotation("rot") /\ InRotation("sched"))

\* C23: the check-then-remove sequences of the rotation's stop and of a
\* request handler's isActive or stop on one key never interleave: no request
\* handler ends with the error of removing a handle that is already removed.
C23_NoDoubleRemoval == ~(pc["main"] = "done" /\ loc["main"].res = "raised")

\* ----------------------------------------------------------- the log threads
\* C24: the log thread of a process does not hold up the caller of start, and
\* it ends once the process has exited and its stderr is at its end: a call
\* of start that has reached the spawn returns, and whenever a process has
\* exited its log thread ends.
C24_LogThreadEnds ==
    /\ (pc["main"] \in {"rec_spawn", "live_spawn", "rec_reg", "live_reg"})
           ~> (pc["main"] = "done")
    /\ \A p \in 1..MaxProcs :
          (p <= Len(procs) /\ ~Running(p)) ~> (p <= Len(procs) /\ logs[p].thread = "ended")

\* two processes have exited and their log threads have ended, and the call
\* that started the second has returned
C24_Witness ==
    /\ Len(procs) >= 2
    /\ \A p \in 1..2 : ~Running(p) /\ logs[p].thread = "ended" /\ logs[p].pending = 0
    /\ pc["main"] = "done"
    /\ loc["main"].res = "True"

\* ------------------------------------------------------- the tracking set
\* C25: whenever no operation is in progress, every camera of the tracking
\* set has a record handle in the registry.
C25_TrackedHasHandle ==
    pc["main"] = "idle" =>
        \A c \in recording_cameras : Has(processes, ProcessKey("record", c))

\* ------------------------------------------------- rotation and user stops
\* the route has stopped the recording of camera c for a user (the handler is
\* about to answer)
UserStopped(c) ==
    /\ loc["main"].op = "reqStop"
    /\ loc["main"].cam = c
    /\ loc["main"].kind = "record"
    /\ pc["main"] = "done"

\* a step of a scheduler thread
SchedulerStep == \E t \in {"rot", "sched"} : pc'[t] # pc[t] \/ loc'[t] # loc[t]

\* C26: a recording that a user has stopped is not started again by the
\* rotation, also when the stop falls into a rotation in progress: no step of
\* a scheduler thread spawns a process for the camera or registers a record
\* handle for it.
C26_StoppedStaysStopped ==
    [][\A c \in Cameras :
          (UserStopped(c) /\ SchedulerStep) =>
              /\ \A p \in 1..Len(procs') :
                     procs'[p].key = ProcessKey("record", c) => p <= Len(procs)
              /\ Has(processes', ProcessKey("record", c))
                     => Has(processes, ProcessKey("record", c))]_vars

\* the user's stop of a recording has succeeded after the rotation had found
\* the camera tracked, and the rotation has gone past its restart
C26_Witness ==
    \E c \in Cameras :
        /\ UserStopped(c)
        /\ loc["main"].res = "True"
        /\ pc["rot"] = "dead"
        /\ loc["rot"].cam = c

\* --------------------------------------------------------- keys and camera ids
\* the camera id that a key was built from: the key without the kind and the
\* underscore that f"{stream_type}_{camera_id}" puts before it
RegisteredCamera(process_key) == SubSeq(process_key, 3, Len(process_key))

\* C27: for every camera id, the id that the rotation cuts out of a registered
\* record key is the id the handle was registered under, and different
\* (camera, kind) pairs have different keys.
C27_KeyRoundTrip ==
    /\ \A i \in 1..Len(processes) :
          StartsWithRecord(processes[i].key) =>
              ReplaceRecord(processes[i].key) = RegisteredCamera(processes[i].key)
    /\ \A c1 \in Identifiers, c2 \in Identifiers, k1 \in Kinds, k2 \in Kinds :
          ProcessKey(k1, c1) = ProcessKey(k2, c2) => (c1 = c2 /\ k1 = k2)

\* ---------------------------------------------- the two recording playlists
\* the segment list of a manifest: its lines that are URLs (no manifest, no
\* segment)
SegmentList(text) == SelectSeq(LinesOf(text), LAMBDA l : l # <<>> /\ l[1] = "http://")

\* the digit-named hour directories of a date
HourDirs(c, d) ==
    LET dir == recording_dir(c, d)
    IN  {n \in EntryNames : dir.exists /\ dir.entries[n].type = "dir" /\ isdigit(n)}

\* hour names by ascending hour
RECURSIVE Ascending(_)
Ascending(hours) ==
    IF hours = {} THEN <<>>
    ELSE LET first == CHOOSE h \in hours :
                          \A g \in hours : HourValue(h) <= HourValue(g)
         IN  <<first>> \o Ascending(hours \ {first})

\* the segment lists of reconstructHour for the hours, one after the other
RECURSIVE HourLists(_, _, _)
HourLists(c, d, hours) ==
    IF hours = <<>> THEN <<>>
    ELSE SegmentList(HourPlaylist(c, d, Head(hours)).text) \o HourLists(c, d, Tail(hours))

MainStep == pc'["main"] # pc["main"] \/ loc'["main"] # loc["main"]

\* C29: a start request for a (camera, kind) whose process is registered and
\* found running is answered with already_active or already_recording, spawns
\* no process and leaves the registry as it is; and from its isActive check to
\* its answer the event-loop thread runs this handler only.
C29_RouteStartChecksFirst ==
    [][/\ (/\ loc["main"].op = "reqStart"
           /\ pc["main"] = "act_poll"
           /\ Running(loc["main"].proc)
           /\ MainStep)
              => (pc'["main"] = "rt_start" /\ loc'["main"].res = "True")
       /\ (/\ loc["main"].op = "reqStart"
           /\ pc["main"] = "rt_start"
           /\ loc["main"].res = "True"
           /\ MainStep)
              => (/\ pc'["main"] = "done"
                  /\ loc'["main"].res = "already"
                  /\ UNCHANGED <<processes, procs, recording_cameras>>)
       /\ (/\ loc["main"].op = "reqStart"
           /\ pc["main"] \in {"act_check", "act_read", "act_poll"}
           /\ MainStep)
              => UNCHANGED <<processes, procs, recording_cameras>>
       /\ (loc["main"].op = "reqStart" /\ pc["main"] # "done")
              => (/\ loc'["main"].op = "reqStart"
                  /\ loc'["main"].cam = loc["main"].cam
                  /\ loc'["main"].kind = loc["main"].kind)]_vars

\* a start request has been answered with already active while the process of
\* its key is registered and running
C29_Witness ==
    /\ loc["main"].op = "reqStart"
    /\ pc["main"] = "done"
    /\ loc["main"].res = "already"
    /\ Has(processes, MyKey("main"))
    /\ Running(Get(processes, MyKey("main")))
    /\ Len(procs) = 1

\* ---------------------------------------------------------------- the cleanup
\* C30: the cleanup never deletes the date folder into which a running
\* recording writes: the folder of the day a running recording was started on
\* is not among the deleted ones.
C30_CleanupSparesRunning ==
    \A p \in 1..Len(procs) :
        (Running(p) /\ StartsWithRecord(procs[p].key)) =>
            [cam |-> RegisteredCamera(procs[p].key), day |-> DayOf(procs[p].hour)]
                \notin deleted

\* the date that a name writes, as <<year, month, day>>, and the order of
\* the dates
DateOf(name) ==
    LET f == Fields(name, "-") IN <<Number(f[1]), Number(f[2]), Number(f[3])>>
Earlier(a, b) ==
    \/ a[1] < b[1]
    \/ a[1] = b[1] /\ a[2] < b[2]
    \/ a[1] = b[1] /\ a[2] = b[2] /\ a[3] < b[3]

\* a date written YYYY-MM-DD: month and day have two digits
IsPaddedDate(name) == is_valid_date_folder(name) /\ Len(name) = 10

\* a step removes the folders whose name is a valid date earlier than the
\* cutoff, less those that rmtree cannot remove, removes and changes nothing
\* else, and replies the number of the folders it has removed
ExactlyTheOld(valid(_)) ==
    LET due == {r \in hls.recordings :
                    valid(r.date) /\ Earlier(DateOf(r.date), DateOf(cutoff_date_str))}
        gone == hls.recordings \ hls'.recordings
    IN  /\ gone = {r \in due : [cam |-> r.cam, date |-> r.date] \notin hls.locked}
        /\ hls'.recordings \subseteq hls.recordings
        /\ hls'.live = hls.live
        /\ reply'.text = <<Cardinality(gone)>>

\* C31: cleanup_old_recordings deletes exactly the folders under
\* <camera>/recordings whose name is a valid YYYY-MM-DD date strictly earlier
\* than today minus retention_days, leaves every other folder untouched, goes
\* on when one folder cannot be deleted, and returns the number of the
\* folders it has deleted; a valid YYYY-MM-DD name being either one with a
\* two-digit month and day, or any name that the date check of the code
\* accepts.
C31_SweepDeletesExactlyOld ==
    [][api_cleanup => (ExactlyTheOld(IsPaddedDate) \/ ExactlyTheOld(is_valid_date_folder))]_vars
====
